---- MODULE Spec2Model ----
(***************************************************************************)
(* The Vodafone chatbot controller (src/src/app.py): a Streamlit script    *)
(* that is re-run on every widget event.  One script run per session at a  *)
(* time; a chat turn is split at its blocking external calls (classifier,  *)
(* table resolver, SQL stages, analytics library, chart file) so that      *)
(* sessions sharing the chart path can interleave.                         *)
(*                                                                         *)
(* External collaborators are opaque: the LLM answers are drawn from small *)
(* sets; the three stages of the SQL pipeline may raise; the analytics     *)
(* library may or may not write the chart file.  The classifier, the       *)
(* resolver, the connector's construction and the library's chat call are  *)
(* taken to return.                                                        *)
(***************************************************************************)
EXTENDS Naturals, Sequences, FiniteSets, TLC

\* ------------------------------------------------------------ bounds
\* Non-empty utterances submitted per behaviour: by the one session, and by
\* two sessions together.
MaxTurns == 3
MaxSharedTurns == 2

\* ------------------------------------------------------------ values
Sessions == {"s1", "s2"}

Whitespace == {" ", "\n"}

\* st.chat_input returns None when nothing was submitted in this run.
NoInput == <<"<None>">>

BlankInputs == {NoInput, <<>>, <<" ">>, <<"\n", " ">>}
Utterances == {<<" ", "p", " ">>}
Inputs == BlankInputs \cup Utterances

\* What the classifier LLM may answer (StrOutputParser: any text).
ClassifierOutputs == {"True", "False", "true ", " True"}

\* What the resolver LLM may answer.
ResolverOutputs == {"Track", "track "}

\* Tables of the databases the server holds.
Schema == [Chinook |-> {"Track", "Artist"}, Sales |-> {"Orders"}]

\* Sidebar defaults (value= of the text inputs).
DefaultParams ==
    [User |-> "root", Password |-> "root123", Host |-> "localhost",
     Port |-> <<"3", "3", "0", "6">>, Database |-> "Chinook"]

\* Values a user types into the sidebar fields.
FieldValues ==
    [User |-> {"root"}, Password |-> {"root123"}, Host |-> {"localhost"},
     Port |-> {<<"3", "3", "0", "6">>, <<"3", "3", "o", "6">>},
     Database |-> {"Chinook", "Sales"}]

Fields == {"User", "Password", "Host", "Port", "Database"}

\* The greeting of app.py:286 (its emoji left out).
Greeting == [role |-> "AI", content |-> "Hello! How can I assist you?"]

Apology ==
    "Sorry, I couldn't find any data related to your question. Please try asking something else."

Fallback ==
    "I'm sorry, but I couldn't find the information you're looking for in the database."

\* Natural-language answers of the summarising LLM and of SmartDataframe.chat.
Answers == {"There are 8 employees."}
ChatResponses == {"exports/charts/temp_chart.png", "The result is 8."}

Absent == "<absent>"

\* What one script run shows below the history.
NoOutput == [text |-> Absent, image |-> <<>>, download |-> <<>>, fault |-> Absent]

VARIABLES
    chat_history,      \* st.session_state.chat_history, per session
    widgets,           \* st.session_state["User"] .. ["Database"], per session
    db,                \* st.session_state.db: <<>> when not set, else <<handle>>
    boolean_plotting,  \* st.session_state.boolean_plotting
    table_name,        \* st.session_state.table_name
    my_connector,      \* st.session_state.my_connector: <<>> or <<config>>
    user_query,        \* value of st.chat_input in the current run
    button,            \* value of st.button("Connect") in the current run
    response,          \* local variable response of the current run
    pc,                \* position of the session's script run
    calls,             \* external calls made by the current run, in order
    output,            \* what the current run rendered
    chart_file,        \* the file at image_path: <<>> or <<[by, turn]>>
    live               \* the sessions (browser tabs) open on the server

vars ==
    <<chat_history, widgets, db, boolean_plotting, table_name, my_connector,
      user_query, button, response, pc, calls, output, chart_file, live>>

\* ------------------------------------------------------------ helpers
RECURSIVE LStrip(_)
LStrip(u) ==
    IF u # <<>> /\ Head(u) \in Whitespace THEN LStrip(Tail(u)) ELSE u

RECURSIVE RStrip(_)
RStrip(u) ==
    IF u # <<>> /\ u[Len(u)] \in Whitespace
    THEN RStrip(SubSeq(u, 1, Len(u) - 1))
    ELSE u

\* str.strip()
Strip(u) == RStrip(LStrip(u))

\* The guard without the strip().
IsTurnUnstripped(u) == u # NoInput /\ u # <<>>

\* app.py:331  user_query is not None and user_query.strip() != ""
IsTurn(u) == u # NoInput /\ Strip(u) # <<>>

Last(h) == h[Len(h)]

HumanMessage(u) == [role |-> "Human", content |-> u]
AIMessage(r) == [role |-> "AI", content |-> r]

\* Number of Human entries of a history: the index of the session's turn.
RECURSIVE HumanCount(_)
HumanCount(h) ==
    IF h = <<>> THEN 0
    ELSE HumanCount(Tail(h)) + (IF Head(h).role = "Human" THEN 1 ELSE 0)

Digits == {"0", "1", "2", "3", "4", "5", "6", "7", "8", "9"}

\* int(port) raises ValueError unless the text is a decimal number.
IsNumeric(port) == port # <<>> /\ \A i \in 1..Len(port) : port[i] \in Digits

\* Non-empty utterances submitted so far, all sessions together.
TotalTurns ==
    LET RECURSIVE Sum(_)
        Sum(S) ==
            IF S = {} THEN 0
            ELSE LET s == CHOOSE x \in S : TRUE
                 IN HumanCount(chat_history[s]) + Sum(S \ {s})
    IN Sum(Sessions)

TurnBudget == IF Cardinality(live) = 1 THEN MaxTurns ELSE MaxSharedTurns

Call(name, result) == [call |-> name, result |-> result]
Called(s, name) == \E i \in 1..Len(calls[s]) : calls[s][i].call = name
Raised(s, name) ==
    \E i \in 1..Len(calls[s]) :
        calls[s][i].call = name /\ calls[s][i].result = "raise"

\* ------------------------------------------------------------ functions
\* app.py:42-57  SQLDatabase.from_uri reflects the tables when it connects.
\* The URI needs an integer port and a database the server holds.
CanConnect(p) == IsNumeric(p.Port) /\ p.Database \in DOMAIN Schema

init_database(user, password, host, port, database) ==
    [User |-> user, Password |-> password, Host |-> host, Port |-> port,
     Database |-> database, tables |-> Schema[database]]

\* db.get_table_names(): the table names reflected at connection time.
get_table_names(handle) == handle.tables

\* A membership test against every schema of the server instead of the
\* connected database's tables.
table_existsInAnySchema(handle, name) ==
    \E d \in DOMAIN Schema : name \in Schema[d]

\* app.py:226-237
table_exists(handle, name) == name \in get_table_names(handle)

\* app.py:239-263  int(port) raises ValueError on a non-numeric port;
\* <<>> stands for the exception, <<config>> for the connector.
init_MySQLConnector_pandasai(user, password, host, port, database, table) ==
    IF IsNumeric(port)
    THEN <<[host |-> host, port |-> port, database |-> database,
            username |-> user, password |-> password, table |-> table]>>
    ELSE <<>>

\* A comparison that forgives case and surrounding blanks.
PlottingRequestedLoosely(b) == b \in {"True", " True", "true "}

\* app.py:344  st.session_state.boolean_plotting == "True"
PlottingRequested(b) == b = "True"

\* chain.invoke without the try/except: the exception leaves the function.
get_responseUnguarded(ok, answer) == [raised |-> ~ok, value |-> answer]

\* app.py:218-224  chain.invoke inside try/except Exception: what the call
\* gives back when the chain ended well (ok, with the LLM's answer) or raised.
get_response(ok, answer) ==
    [raised |-> FALSE, value |-> IF ok THEN answer ELSE Apology]

\* A read that falls back to a connection with the sidebar's defaults.
session_dbOrDefault(s) ==
    IF db[s] = <<>>
    THEN <<init_database(DefaultParams.User, DefaultParams.Password,
                         DefaultParams.Host, DefaultParams.Port,
                         DefaultParams.Database)>>
    ELSE db[s]

\* app.py:346, 352, 391  reading st.session_state.db: <<>> stands for the
\* AttributeError of a session in which Connect never assigned it.
session_db(s) == db[s]

\* An assignment to the last entry instead of an append.
appendOverLast(h, m) == [h EXCEPT ![Len(h)] = m]

\* list.append of app.py:332, 375, 388, 393
append(h, m) == Append(h, m)

\* ------------------------------------------------------------ state
SessionInit(v) == [s \in Sessions |-> v]

InitState ==
    /\ chat_history = SessionInit(<<Greeting>>)
    /\ widgets = SessionInit(DefaultParams)
    /\ db = SessionInit(<<>>)
    /\ boolean_plotting = SessionInit(Absent)
    /\ table_name = SessionInit(Absent)
    /\ my_connector = SessionInit(<<>>)
    /\ user_query = SessionInit(NoInput)
    /\ button = SessionInit(FALSE)
    /\ response = SessionInit(Absent)
    /\ pc = SessionInit("idle")
    /\ calls = SessionInit(<<>>)
    /\ output = SessionInit(NoOutput)
    /\ chart_file = <<>>

\* One browser session.
Init == InitState /\ live = {"s1"}

\* One or two sessions on one server and one filesystem.
InitShared == InitState /\ live \in {{"s1"}, Sessions}

\* A script run starts: the widgets' values of this run, nothing rendered yet.
StartRun(s, query, clicked) ==
    /\ s \in live
    /\ pc[s] = "idle"
    /\ user_query' = [user_query EXCEPT ![s] = query]
    /\ button' = [button EXCEPT ![s] = clicked]

\* An uncaught exception ends the script run where it is raised.
Fault(s, exception, made) ==
    /\ pc' = [pc EXCEPT ![s] = "done"]
    /\ calls' = [calls EXCEPT ![s] = made]
    /\ output' = [output EXCEPT ![s].fault = exception]

\* ------------------------------------------------------------ sidebar
\* app.py:299-303  the user edits one connection field; the script re-runs
\* with no button click and no chat input.
EditField(s, f, v) ==
    /\ StartRun(s, NoInput, FALSE)
    /\ v \in FieldValues[f]
    /\ v # widgets[s][f]
    /\ widgets' = [widgets EXCEPT ![s][f] = v]
    /\ calls' = [calls EXCEPT ![s] = <<>>]
    /\ output' = [output EXCEPT ![s] = NoOutput]
    /\ response' = [response EXCEPT ![s] = Absent]
    /\ UNCHANGED <<chat_history, db, boolean_plotting, table_name,
                   my_connector, pc, chart_file, live>>

\* app.py:305-315  Connect: init_database with the fields' current values;
\* when it raises (server down, bad URI) session_state.db is not assigned.
Connect(s, up) ==
    /\ StartRun(s, NoInput, TRUE)
    /\ response' = [response EXCEPT ![s] = Absent]
    /\ IF up /\ CanConnect(widgets[s])
       THEN /\ db' = [db EXCEPT ![s] =
                        <<init_database(widgets[s].User, widgets[s].Password,
                                        widgets[s].Host, widgets[s].Port,
                                        widgets[s].Database)>>]
            /\ calls' = [calls EXCEPT ![s] = <<Call("init_database", "ok")>>]
            /\ output' = [output EXCEPT ![s] =
                            [NoOutput EXCEPT !.text = "Connected to database!"]]
       ELSE /\ db' = db
            /\ calls' = [calls EXCEPT ![s] = <<Call("init_database", "raise")>>]
            /\ output' = [output EXCEPT ![s] =
                            [NoOutput EXCEPT !.fault = "init_database"]]
    /\ pc' = [pc EXCEPT ![s] = "done"]
    /\ UNCHANGED <<chat_history, widgets, boolean_plotting, table_name,
                   my_connector, chart_file, live>>

\* ------------------------------------------------------------ chat turn
\* app.py:330-335  the value of the chat input decides whether a turn starts.
ChatInput(s, u) ==
    /\ StartRun(s, u, FALSE)
    /\ u \in Inputs
    /\ IsTurn(u) => TotalTurns < TurnBudget
    /\ calls' = [calls EXCEPT ![s] = <<>>]
    /\ output' = [output EXCEPT ![s] = NoOutput]
    /\ response' = [response EXCEPT ![s] = Absent]
    /\ IF IsTurn(u)
       THEN /\ chat_history' =
                 [chat_history EXCEPT ![s] = append(@, HumanMessage(u))]
            /\ pc' = [pc EXCEPT ![s] = "check_plotting"]
       ELSE /\ pc' = [pc EXCEPT ![s] = "done"]
            /\ UNCHANGED chat_history
    /\ UNCHANGED <<widgets, db, boolean_plotting, table_name, my_connector,
                   chart_file, live>>

\* app.py:344, 390  which branch follows the classifier's answer b.
AfterClassifier(b) ==
    IF PlottingRequested(b) THEN "get_sql_table" ELSE "get_response"

\* app.py:339-344  the classifier's answer b is stored and compared.
CheckPlotting(s, b) ==
    /\ s \in live
    /\ pc[s] = "check_plotting"
    /\ b \in ClassifierOutputs
    /\ boolean_plotting' = [boolean_plotting EXCEPT ![s] = b]
    /\ calls' = [calls EXCEPT ![s] = Append(@, Call("check_plotting", "ok"))]
    /\ pc' = [pc EXCEPT ![s] = AfterClassifier(b)]
    /\ UNCHANGED <<chat_history, widgets, db, table_name, my_connector,
                   user_query, button, response, output, chart_file, live>>

\* app.py:346-350  st.session_state.db raises AttributeError when Connect
\* never assigned it; otherwise the resolver's answer t is stored.
GetSqlTable(s, t) ==
    /\ s \in live
    /\ pc[s] = "get_sql_table"
    /\ t \in ResolverOutputs
    /\ IF session_db(s) = <<>>
       THEN /\ Fault(s, "AttributeError", calls[s])
            /\ UNCHANGED table_name
       ELSE /\ table_name' = [table_name EXCEPT ![s] = t]
            /\ calls' = [calls EXCEPT ![s] =
                           Append(@, Call("get_sql_table", "ok"))]
            /\ pc' = [pc EXCEPT ![s] = "table_exists"]
            /\ UNCHANGED output
    /\ UNCHANGED <<chat_history, widgets, db, boolean_plotting, my_connector,
                   user_query, button, response, chart_file, live>>

\* The chart the analytics library writes for turn n of session s.
Chart(s) == [by |-> s, turn |-> HumanCount(chat_history[s])]

\* A missing else: the fallback answer falls through to the SQL branch.
AfterTableCheckFallingThrough(exists) ==
    IF exists THEN "chat" ELSE "get_response"

\* app.py:352, 385  what follows the membership check.
AfterTableCheck(exists) == IF exists THEN "chat" ELSE "done"

\* app.py:352-361, 385-388  the membership check, then either the
\* connector from the fields' current values or the fallback answer.
TableCheck(s) ==
    /\ s \in live
    /\ pc[s] = "table_exists"
    /\ LET exists == table_exists(session_db(s)[1], table_name[s])
           made == Append(calls[s], Call("table_exists", "ok"))
           connector ==
               init_MySQLConnector_pandasai(
                   widgets[s].User, widgets[s].Password, widgets[s].Host,
                   widgets[s].Port, widgets[s].Database, table_name[s])
       IN IF AfterTableCheck(exists) = "chat"
          THEN IF connector = <<>>
               THEN /\ Fault(s, "ValueError", made)
                    /\ UNCHANGED <<my_connector, chat_history>>
               ELSE /\ my_connector' = [my_connector EXCEPT ![s] = connector]
                    /\ calls' = [calls EXCEPT ![s] =
                                   Append(made, Call("MySQLConnector", "ok"))]
                    /\ pc' = [pc EXCEPT ![s] = "chat"]
                    /\ UNCHANGED <<output, chat_history>>
          ELSE /\ output' = [output EXCEPT ![s].text = Fallback]
               /\ chat_history' =
                    [chat_history EXCEPT ![s] = append(@, AIMessage(Fallback))]
               /\ calls' = [calls EXCEPT ![s] = made]
               /\ pc' = [pc EXCEPT ![s] = AfterTableCheck(exists)]
               /\ UNCHANGED my_connector
    /\ UNCHANGED <<widgets, db, boolean_plotting, table_name, user_query,
                   button, response, chart_file, live>>

\* A write that leaves an existing chart file in place.
WriteChartKeepingOld(s, wrote) ==
    IF wrote /\ chart_file = <<>> THEN <<Chart(s)>> ELSE chart_file

\* app.py:366-368  the file at the fixed path after the library's call:
\* overwritten when the library plots, left as it was otherwise.
WriteChart(s, wrote) == IF wrote THEN <<Chart(s)>> ELSE chart_file

\* app.py:364-366  SmartDataframe(...).chat(user_query): the library answers
\* r and, when it plots, writes the chart to the fixed path.
Chat(s, wrote, r) ==
    /\ s \in live
    /\ pc[s] = "chat"
    /\ wrote \in BOOLEAN
    /\ r \in ChatResponses
    /\ response' = [response EXCEPT ![s] = r]
    /\ chart_file' = WriteChart(s, wrote)
    /\ calls' = [calls EXCEPT ![s] =
                   Append(@, Call("SmartDataframe.chat",
                                  IF wrote THEN "chart" ELSE "no chart"))]
    /\ pc' = [pc EXCEPT ![s] = "Image.open"]
    /\ UNCHANGED <<chat_history, widgets, db, boolean_plotting, table_name,
                   my_connector, user_query, button, output, live>>

\* app.py:368-375  Image.open(image_path) with no existence check, st.image,
\* then the assistant entry.
ImageOpen(s) ==
    /\ s \in live
    /\ pc[s] = "Image.open"
    /\ IF chart_file = <<>>
       THEN /\ Fault(s, "FileNotFoundError",
                     Append(calls[s], Call("Image.open", "raise")))
            /\ UNCHANGED chat_history
       ELSE /\ output' = [output EXCEPT ![s].image = chart_file]
            /\ chat_history' =
                 [chat_history EXCEPT ![s] = append(@, AIMessage(response[s]))]
            /\ calls' = [calls EXCEPT ![s] =
                           Append(@, Call("Image.open", "ok"))]
            /\ pc' = [pc EXCEPT ![s] = "download"]
    /\ UNCHANGED <<widgets, db, boolean_plotting, table_name, my_connector,
                   user_query, button, response, chart_file, live>>

\* app.py:377-383  the file is opened a second time for the download button.
Download(s) ==
    /\ s \in live
    /\ pc[s] = "download"
    /\ IF chart_file = <<>>
       THEN Fault(s, "FileNotFoundError",
                  Append(calls[s], Call("open", "raise")))
       ELSE /\ output' = [output EXCEPT ![s].download = chart_file]
            /\ calls' = [calls EXCEPT ![s] = Append(@, Call("open", "ok"))]
            /\ pc' = [pc EXCEPT ![s] = "done"]
    /\ UNCHANGED <<chat_history, widgets, db, boolean_plotting, table_name,
                   my_connector, user_query, button, response, chart_file,
                   live>>

\* app.py:391-393  get_response has returned r: its value is rendered and
\* appended; an exception it let through ends the run.
Answer(s, r, made) ==
    IF r.raised
    THEN /\ Fault(s, "Exception", made)
         /\ UNCHANGED <<chat_history, response>>
    ELSE /\ response' = [response EXCEPT ![s] = r.value]
         /\ output' = [output EXCEPT ![s].text = r.value]
         /\ chat_history' =
              [chat_history EXCEPT ![s] = append(@, AIMessage(r.value))]
         /\ calls' = [calls EXCEPT ![s] = made]
         /\ pc' = [pc EXCEPT ![s] = "done"]

\* app.py:391, 194, 209  the argument st.session_state.db is read, then
\* get_response runs stage (a): sql_chain generates the SQL text.
GenerateSql(s, ok) ==
    /\ s \in live
    /\ pc[s] = "get_response"
    /\ ok \in BOOLEAN
    /\ IF session_db(s) = <<>>
       THEN /\ Fault(s, "AttributeError", calls[s])
            /\ UNCHANGED <<chat_history, response>>
       ELSE LET made == calls[s] \o <<Call("get_response", "ok"),
                                      Call("sql_chain",
                                           IF ok THEN "ok" ELSE "raise")>>
            IN IF ok
               THEN /\ calls' = [calls EXCEPT ![s] = made]
                    /\ pc' = [pc EXCEPT ![s] = "db.run"]
                    /\ UNCHANGED <<chat_history, response, output>>
               ELSE Answer(s, get_response(FALSE, Absent), made)
    /\ UNCHANGED <<widgets, db, boolean_plotting, table_name, my_connector,
                   user_query, button, chart_file, live>>

\* app.py:209-212  stage (b): the second assign runs the schema text and
\* db.run(query) side by side; either may raise.
ExecuteSql(s, runOk, schemaOk, runFirst) ==
    /\ s \in live
    /\ pc[s] = "db.run"
    /\ runOk \in BOOLEAN /\ schemaOk \in BOOLEAN /\ runFirst \in BOOLEAN
    /\ LET run == Call("db.run", IF runOk THEN "ok" ELSE "raise")
           schema ==
               Call("db.get_table_info", IF schemaOk THEN "ok" ELSE "raise")
           made ==
               calls[s] \o
                   (IF runFirst THEN <<run, schema>> ELSE <<schema, run>>)
       IN IF runOk /\ schemaOk
          THEN /\ calls' = [calls EXCEPT ![s] = made]
               /\ pc' = [pc EXCEPT ![s] = "llm"]
               /\ UNCHANGED <<chat_history, response, output>>
          ELSE Answer(s, get_response(FALSE, Absent), made)
    /\ UNCHANGED <<widgets, db, boolean_plotting, table_name, my_connector,
                   user_query, button, chart_file, live>>

\* app.py:213-215  stage (c): the LLM turns the result into an answer a.
Summarise(s, ok, a) ==
    /\ s \in live
    /\ pc[s] = "llm"
    /\ ok \in BOOLEAN
    /\ a \in Answers
    /\ Answer(s, get_response(ok, a),
              Append(calls[s], Call("llm", IF ok THEN "ok" ELSE "raise")))
    /\ UNCHANGED <<widgets, db, boolean_plotting, table_name, my_connector,
                   user_query, button, chart_file, live>>

\* The script run has ended: the page stays as rendered until the next
\* widget event, whose run starts from session_state alone.
RunEnds(s) ==
    /\ s \in live
    /\ pc[s] = "done"
    /\ pc' = [pc EXCEPT ![s] = "idle"]
    /\ user_query' = [user_query EXCEPT ![s] = NoInput]
    /\ button' = [button EXCEPT ![s] = FALSE]
    /\ response' = [response EXCEPT ![s] = Absent]
    /\ calls' = [calls EXCEPT ![s] = <<>>]
    /\ output' = [output EXCEPT ![s] = NoOutput]
    /\ UNCHANGED <<chat_history, widgets, db, boolean_plotting, table_name,
                   my_connector, chart_file, live>>

\* ------------------------------------------------------------ behaviours
\* The steps of a run started by the chat input.
TurnStep(s) ==
    \/ \E u \in Inputs : ChatInput(s, u)
    \/ \E b \in ClassifierOutputs : CheckPlotting(s, b)
    \/ \E t \in ResolverOutputs : GetSqlTable(s, t)
    \/ TableCheck(s)
    \/ \E wrote \in BOOLEAN : \E r \in ChatResponses : Chat(s, wrote, r)
    \/ ImageOpen(s)
    \/ Download(s)
    \/ \E ok \in BOOLEAN : GenerateSql(s, ok)
    \/ \E runOk, schemaOk, runFirst \in BOOLEAN :
           ExecuteSql(s, runOk, schemaOk, runFirst)
    \/ \E ok \in BOOLEAN : \E a \in Answers : Summarise(s, ok, a)
    \/ RunEnds(s)

Next ==
    \E s \in Sessions :
        \/ \E f \in Fields : \E v \in FieldValues[f] : EditField(s, f, v)
        \/ \E up \in BOOLEAN : Connect(s, up)
        \/ TurnStep(s)

\* With the sidebar fields left at their defaults.
NextShared ==
    \E s \in Sessions :
        \/ \E up \in BOOLEAN : Connect(s, up)
        \/ TurnStep(s)

\* One session.
Spec == Init /\ [][Next]_vars

\* One or two sessions sharing the server's filesystem; the connection
\* fields, which play no part in the chart file, keep their defaults.
SpecShared == InitShared /\ [][NextShared]_vars

\* ------------------------------------------------------------ properties
\* The run of session s was started by a non-empty utterance and has ended.
TurnDone(s) == pc[s] = "done" /\ IsTurn(user_query[s])

\* Session s is inside, or at the end of, a run started by an utterance.
InTurn(s) == pc[s] # "idle" /\ ~button[s] /\ IsTurn(user_query[s])

LastIs(s, role, content) ==
    /\ Last(chat_history[s]).role = role
    /\ Last(chat_history[s]).content = content

SqlStages == {"sql_chain", "db.run", "db.get_table_info", "llm"}

\* C1 as stated: in every turn the table resolver is called if and only if
\* the classifier's output is exactly "True", and for every other output
\* get_response is called and neither the resolver nor a connector is.
C1_ResolverIffTrue ==
    \A s \in live :
        TurnDone(s) =>
            /\ Called(s, "get_sql_table") <=> boolean_plotting[s] = "True"
            /\ boolean_plotting[s] # "True" =>
                   /\ Called(s, "get_response")
                   /\ ~Called(s, "get_sql_table")
                   /\ ~Called(s, "MySQLConnector")

\* C1 amended: the branch is chosen by exact equality with "True".  The
\* resolver is called only for "True" and get_response only for any other
\* output, which never reaches the resolver, the membership check or a
\* connector; with a connection open the call of the chosen branch is made,
\* and with none the turn faults on the missing handle before either call.
C1_RoutingByExactTrue ==
    \A s \in live :
        TurnDone(s) =>
            /\ Called(s, "check_plotting")
            /\ Called(s, "get_sql_table") => boolean_plotting[s] = "True"
            /\ Called(s, "get_response") => boolean_plotting[s] # "True"
            /\ boolean_plotting[s] # "True" =>
                   /\ ~Called(s, "get_sql_table")
                   /\ ~Called(s, "table_exists")
                   /\ ~Called(s, "MySQLConnector")
                   /\ ~Called(s, "SmartDataframe.chat")
            /\ db[s] # <<>> =>
                   /\ boolean_plotting[s] = "True" => Called(s, "get_sql_table")
                   /\ boolean_plotting[s] # "True" => Called(s, "get_response")
            /\ db[s] = <<>> =>
                   /\ ~Called(s, "get_sql_table")
                   /\ ~Called(s, "get_response")
                   /\ output[s].fault = "AttributeError"

\* A malformed classifier output, connection open, routed to get_response.
C1_Witness ==
    \E s \in live :
        /\ TurnDone(s)
        /\ db[s] # <<>>
        /\ boolean_plotting[s] \in {" True", "true "}
        /\ Called(s, "get_response")

\* C2: once the resolver's table name has been checked and is not among the
\* connected database's table names, the turn has ended with exactly the
\* fallback string as its output and as the appended assistant entry, and
\* with no connector built, no SmartDataframe chat and no read of the chart.
C2_TableNotFoundFallback ==
    \A s \in live :
        ( /\ InTurn(s)
          /\ Called(s, "get_sql_table")
          /\ pc[s] # "table_exists"
          /\ table_name[s] \notin get_table_names(db[s][1]) ) =>
            /\ pc[s] = "done"
            /\ output[s] = [NoOutput EXCEPT !.text = Fallback]
            /\ LastIs(s, "AI", Fallback)
            /\ chat_history[s][Len(chat_history[s]) - 1] =
                   HumanMessage(user_query[s])
            /\ ~Called(s, "MySQLConnector")
            /\ ~Called(s, "SmartDataframe.chat")
            /\ ~Called(s, "Image.open")

\* A table of another database, refused by the connected one.
C2_Witness ==
    \E s \in live :
        /\ TurnDone(s)
        /\ Called(s, "table_exists")
        /\ table_name[s] = "Track"
        /\ db[s] # <<>> /\ db[s][1].Database = "Sales"
        /\ output[s].text = Fallback

\* C3: when get_response was invoked and one of its stages raised, whichever
\* it was, the turn has ended with exactly the apology string as its output
\* and as the appended assistant entry, and with no fault.
C3_AnyStageApology ==
    \A s \in live :
        ( /\ InTurn(s)
          /\ Called(s, "get_response")
          /\ \E stage \in SqlStages : Raised(s, stage) ) =>
            /\ pc[s] = "done"
            /\ output[s] = [NoOutput EXCEPT !.text = Apology]
            /\ response[s] = Apology
            /\ LastIs(s, "AI", Apology)
            /\ chat_history[s][Len(chat_history[s]) - 1] =
                   HumanMessage(user_query[s])

\* The execution stage raised after the SQL text was generated.
C3_Witness ==
    \E s \in live :
        /\ TurnDone(s)
        /\ Raised(s, "db.run")
        /\ ~Raised(s, "sql_chain")
        /\ output[s].text = Apology

IsPrefix(h, g) == Len(h) <= Len(g) /\ SubSeq(g, 1, Len(h)) = h

\* The greeting followed by (Human, AI) pairs.
GreetingThenPairs(h) ==
    /\ h[1] = Greeting
    /\ Len(h) = 1 + 2 * HumanCount(h)
    /\ \A i \in 2..Len(h) :
           h[i].role = (IF i % 2 = 0 THEN "Human" ELSE "AI")

\* C4 as stated: between turns the history is the greeting followed by one
\* (Human, AI) pair per turn, however the turns ended.
C4_PairPerTurn ==
    \A s \in live :
        pc[s] \in {"idle", "done"} => GreetingThenPairs(chat_history[s])

\* C4 amended: the history starts with the greeting and is append-only, one
\* entry per step and earlier entries never modified or removed; a Human
\* entry is appended exactly when a run starts a turn; every AI entry after
\* the greeting directly follows the Human entry of its turn; and a turn
\* that has ended appended its one AI entry exactly when it ended without
\* an unhandled fault (SQL answer, SQL apology, chart shown, fallback), and
\* left its Human entry last when it ended in one.
C4_AppendOnlyAtMostOneAnswer ==
    /\ [](\A s \in live :
            LET h == chat_history[s]
            IN /\ h[1] = Greeting
               /\ \A i \in 2..Len(h) :
                      h[i].role = "AI" => h[i - 1].role = "Human"
               /\ TurnDone(s) =>
                      IF output[s].fault = Absent
                      THEN /\ Last(h).role = "AI"
                           /\ h[Len(h) - 1] = HumanMessage(user_query[s])
                      ELSE Last(h) = HumanMessage(user_query[s]))
    /\ [][\A s \in live :
            /\ IsPrefix(chat_history[s], chat_history'[s])
            /\ Len(chat_history'[s]) <= Len(chat_history[s]) + 1
            /\ HumanCount(chat_history'[s]) # HumanCount(chat_history[s]) <=>
                   (pc[s] = "idle" /\ pc'[s] = "check_plotting")]_vars

\* Three turns of one session: two answered, then one ended by a fault.
C4_Witness ==
    \E s \in live :
        /\ TurnDone(s)
        /\ HumanCount(chat_history[s]) = 3
        /\ Len(chat_history[s]) = 6
        /\ output[s].fault # Absent

\* C5 as stated: the parameters given to the analytics connector are the
\* ones the open database connection was created with.
C5_ConnectorUsesConnectionParams ==
    \A s \in live :
        (InTurn(s) /\ Called(s, "MySQLConnector")) =>
            LET c == my_connector[s][1]
                h == db[s][1]
            IN /\ c.username = h.User
               /\ c.password = h.Password
               /\ c.host = h.Host
               /\ c.port = h.Port
               /\ c.database = h.Database

\* The library's call of this turn wrote the chart.
WroteChart(s) ==
    \E i \in 1..Len(calls[s]) :
        calls[s][i] = Call("SmartDataframe.chat", "chart")

\* C6 as stated: when the library's call of a turn wrote no chart, the read
\* of the fixed path faults, with no image, no download button and no
\* assistant entry; an image shown in a turn was written in that turn.
C6_NoChartMeansFault ==
    \A s \in live :
        /\ ( /\ InTurn(s)
             /\ Called(s, "SmartDataframe.chat")
             /\ ~WroteChart(s)
             /\ pc[s] # "Image.open" ) =>
               /\ pc[s] = "done"
               /\ output[s].fault = "FileNotFoundError"
               /\ output[s].image = <<>>
               /\ output[s].download = <<>>
               /\ Last(chat_history[s]) = HumanMessage(user_query[s])
        /\ output[s].image # <<>> =>
               /\ WroteChart(s)
               /\ output[s].image = <<Chart(s)>>

\* C7: a session shows, or offers for download, a chart written by another
\* session only when a second session shares the filesystem; and a single
\* session whose library call wrote the chart in a turn reads back, in that
\* turn, exactly the chart written for that turn.
C7_NoRaceInOneSession ==
    \A s \in live :
        \A shown \in {output[s].image, output[s].download} :
            shown # <<>> =>
                /\ shown[1].by # s =>
                       /\ Cardinality(live) = 2
                       /\ shown[1].by \in live
                /\ (Cardinality(live) = 1 /\ WroteChart(s)) =>
                       shown = <<Chart(s)>>

\* Two sessions: the chart one session's library call wrote in its turn was
\* overwritten before the read-back, so it shows the other session's chart.
C7_Witness ==
    \E s \in live :
        /\ InTurn(s)
        /\ WroteChart(s)
        /\ output[s].image # <<>>
        /\ output[s].image[1].by # s
        /\ output[s].download = output[s].image

\* Position of the first call named name in the run of session s, 0 if none.
IndexOf(s, name) ==
    IF Called(s, name)
    THEN CHOOSE i \in 1..Len(calls[s]) :
             /\ calls[s][i].call = name
             /\ \A j \in 1..(i - 1) : calls[s][j].call # name
    ELSE 0

Count(s, name) ==
    Cardinality({i \in 1..Len(calls[s]) : calls[s][i].call = name})

Before(s, a, b) == Called(s, a) /\ IndexOf(s, a) < IndexOf(s, b)

C9_NoConnectionFaults ==
    /\ [](\A s \in live :
            (InTurn(s) /\ db[s] = <<>>) =>
                /\ Last(chat_history[s]) = HumanMessage(user_query[s])
                /\ output[s].text = Absent
                /\ output[s].image = <<>>
                /\ pc[s] \in {"check_plotting", "get_sql_table",
                              "get_response", "done"}
                /\ pc[s] # "check_plotting" =>
                       calls[s] = <<Call("check_plotting", "ok")>>
                /\ pc[s] = "done" <=> output[s].fault = "AttributeError")
    /\ [][\A s \in live :
            db'[s] # db[s] =>
                /\ pc[s] = "idle"
                /\ button'[s]
                /\ calls'[s] = <<Call("init_database", "ok")>>]_vars

\* The visualization branch of a turn ended by the missing handle.
C9_Witness ==
    \E s \in live :
        /\ TurnDone(s)
        /\ db[s] = <<>>
        /\ boolean_plotting[s] = "True"
        /\ output[s].fault = "AttributeError"

\* None, the empty string, or whitespace only.
Blank(u) == u = NoInput \/ \A i \in 1..Len(u) : u[i] \in Whitespace

\* C10: a run whose chat input is absent, empty or whitespace-only (and
\* whose Connect button was not clicked) ends at the guard: it leaves the
\* history, the stored classification, table name and connector and the
\* connection handle as they were and makes no call.
C10_BlankInputIsNoTurn ==
    [][\A s \in live :
         ( /\ pc[s] = "idle"
           /\ pc'[s] # "idle"
           /\ ~button'[s]
           /\ Blank(user_query'[s]) ) =>
             /\ pc'[s] = "done"
             /\ calls'[s] = <<>>
             /\ output'[s] = NoOutput
             /\ chat_history'[s] = chat_history[s]
             /\ boolean_plotting'[s] = boolean_plotting[s]
             /\ table_name'[s] = table_name[s]
             /\ my_connector'[s] = my_connector[s]
             /\ db'[s] = db[s]]_vars

\* A whitespace-only input after a turn that stored its values.
C10_Witness ==
    \E s \in live :
        /\ pc[s] = "done"
        /\ ~button[s]
        /\ user_query[s] = <<"\n", " ">>
        /\ my_connector[s] # <<>>
        /\ Len(chat_history[s]) > 1
====
